---- MODULE Spec2Model ----
(***************************************************************************)
(* Model of the keycloakAuth Django/DRF application: the bearer-token      *)
(* extraction of authentication.py, the error translation of               *)
(* exceptions.py, the serializers of serializers.py and the request        *)
(* handlers of views.py.                                                    *)
(*                                                                         *)
(* Text is modelled as a sequence of chunks: "SP" is one whitespace        *)
(* character, every other chunk is a run of non-whitespace characters.     *)
(* A request is handled atomically (one action per handler); the IdP, the  *)
(* Profile Store and the clock are the only state shared by requests.      *)
(***************************************************************************)
EXTENDS Integers, Sequences, FiniteSets, TLC

(***************************************************************************)
(* Bounds                                                                  *)
(***************************************************************************)
MaxHeaderLen == 3
MaxTime == 2
MaxProfiles == 2

(***************************************************************************)
(* Text helpers                                                            *)
(***************************************************************************)
\* the characters str.split() and str.strip() treat as whitespace
IsSpace(c) == c = "SP"

\* all texts of at most n chunks over the alphabet A
TextsUpTo(A, n) == UNION {[1..k -> A] : k \in 0..n}

\* str.strip(): drop leading and trailing whitespace
RECURSIVE LStrip(_)
LStrip(s) == IF s = <<>> THEN <<>>
             ELSE IF IsSpace(Head(s)) THEN LStrip(Tail(s)) ELSE s

RECURSIVE RStrip(_)
RStrip(s) == IF s = <<>> THEN <<>>
             ELSE IF IsSpace(s[Len(s)]) THEN RStrip(SubSeq(s, 1, Len(s) - 1))
             ELSE s

Strip(s) == RStrip(LStrip(s))

\* str.split() without arguments: the maximal runs of non-whitespace
\* characters, in order; leading, trailing and repeated whitespace yields
\* no empty word.  cur is the word being read.
RECURSIVE SplitFrom(_, _)
SplitFrom(s, cur) ==
    IF s = <<>> THEN (IF cur = <<>> THEN <<>> ELSE <<cur>>)
    ELSE IF IsSpace(Head(s))
         THEN (IF cur = <<>> THEN <<>> ELSE <<cur>>) \o SplitFrom(Tail(s), <<>>)
         ELSE SplitFrom(Tail(s), Append(cur, Head(s)))

Split(s) == SplitFrom(s, <<>>)

\* auth_header.startswith('Bearer ')
StartsWithBearer(h) == Len(h) >= 2 /\ h[1] = "Bearer" /\ h[2] = "SP"

(***************************************************************************)
(* Requests' Authorization header                                          *)
(***************************************************************************)
NoHeader == <<"<absent>">>
HeaderChunks == {"Bearer", "SP", "tokA", "tokB"}
Headers == {NoHeader} \cup TextsUpTo(HeaderChunks, MaxHeaderLen)

\* `not auth_header`: the header is absent or the empty string
HeaderFalsy(h) == h = NoHeader \/ h = <<>>

(***************************************************************************)
(* The IdP: which access tokens resolve, and to whom                       *)
(***************************************************************************)
Subjects == {"subA", "subB"}
NoSubject == "<none>"
IssuedTokens == {<<"tokA">>, <<"tokB">>}
SubjectOf(tok) == IF tok = <<"tokA">> THEN "subA" ELSE "subB"

VARIABLES
    BASE_FRONTEND_URL,  \* settings.BASE_FRONTEND_URL, a text
    extractorEnabled,   \* KeycloakAuthentication is among the authenticators
    liveTokens,         \* the access tokens the IdP currently resolves
    profiles,           \* the Profile Store: primary key -> row
    now,                \* timezone.now()
    lastResp            \* the request just handled and its response

vars == <<BASE_FRONTEND_URL, extractorEnabled, liveTokens, profiles, now, lastResp>>

(***************************************************************************)
(* IdP Client Adapter: get_user_info                                       *)
(***************************************************************************)
NoUserInfo == [sub |-> NoSubject, email |-> NoSubject]

\* kc_openID_services.get_user_info(access_token): the userinfo of a token
\* the IdP resolves, a raised error for every other token
get_user_info(access_token, live) ==
    IF access_token \in live
    THEN [ok |-> TRUE,
          userinfo |-> [sub |-> SubjectOf(access_token),
                        email |-> SubjectOf(access_token)]]
    ELSE [ok |-> FALSE, userinfo |-> NoUserInfo]

(***************************************************************************)
(* authentication.py                                                       *)
(***************************************************************************)
\* KeycloakUser(userinfo): an object wrapping the userinfo mapping
KeycloakUser(userinfo) == [kind |-> "KeycloakUser", userinfo |-> userinfo]

\* the user DRF attaches when no authenticator resolved one
AnonymousUser == [kind |-> "AnonymousUser", userinfo |-> NoUserInfo]

\* KeycloakAuthentication.authenticate.  outcome is "anonymous" (returns
\* None), "user" (returns (user, None)), or the exception raised;
\* calls counts the calls of get_user_info.
authenticate(auth_header, live) ==
    IF HeaderFalsy(auth_header) \/ ~StartsWithBearer(auth_header)
    THEN [outcome |-> "anonymous", user |-> AnonymousUser, calls |-> 0]
    ELSE LET words == Split(auth_header) IN
         IF Len(words) < 2
         THEN \* auth_header.split()[1] outside the try block
              [outcome |-> "IndexError", user |-> AnonymousUser, calls |-> 0]
         ELSE LET r == get_user_info(words[2], live) IN
              IF r.ok
              THEN [outcome |-> "user", user |-> KeycloakUser(r.userinfo),
                    calls |-> 1]
              ELSE [outcome |-> "AuthenticationFailed", user |-> AnonymousUser,
                    calls |-> 1]

\* has_permission with `return True` in the except branch
has_permission_lenient(auth_header, live) ==
    IF HeaderFalsy(auth_header) \/ ~StartsWithBearer(auth_header)
    THEN [outcome |-> "false", calls |-> 0]
    ELSE LET words == Split(auth_header) IN
         IF Len(words) < 2
         THEN [outcome |-> "IndexError", calls |-> 0]
         ELSE [outcome |-> "true", calls |-> 1]

\* IsKeycloakAuthenticated.has_permission.  outcome is "true", "false" or
\* the exception raised.
has_permission(auth_header, live) ==
    IF HeaderFalsy(auth_header) \/ ~StartsWithBearer(auth_header)
    THEN [outcome |-> "false", calls |-> 0]
    ELSE LET words == Split(auth_header) IN
         IF Len(words) < 2
         THEN \* auth_header.split()[1] outside the try block
              [outcome |-> "IndexError", calls |-> 0]
         ELSE IF get_user_info(words[2], live).ok
              THEN [outcome |-> "true", calls |-> 1]
              ELSE [outcome |-> "false", calls |-> 1]

(***************************************************************************)
(* Dispatch of a request to a view with                                    *)
(* permission_classes = [IsKeycloakAuthenticated]: the Authentication      *)
(* Extractor (when configured), then the Authorization Gate, then the      *)
(* handler body.                                                           *)
(***************************************************************************)
\* status of a request the extractor or the gate rejects
GateFailureStatus == 401
\* status of a request whose handling raised an error nothing maps
UnhandledErrorStatus == 500

Admit(auth_header, enabled, live) ==
    LET a == IF enabled THEN authenticate(auth_header, live)
             ELSE [outcome |-> "skipped", user |-> AnonymousUser, calls |-> 0]
        raisedA == a.outcome \in {"IndexError", "AuthenticationFailed"}
        p == IF raisedA THEN [outcome |-> "skipped", calls |-> 0]
             ELSE has_permission(auth_header, live)
    IN  [auth     |-> a.outcome,
         perm     |-> p.outcome,
         user     |-> a.user,
         calls    |-> a.calls + p.calls,
         admitted |-> ~raisedA /\ p.outcome = "true",
         raised   |-> IF a.outcome = "IndexError" \/ p.outcome = "IndexError"
                      THEN "IndexError"
                      ELSE IF a.outcome = "AuthenticationFailed"
                           THEN "AuthenticationFailed"
                           ELSE IF p.outcome = "false" THEN "NotAuthenticated"
                                ELSE "none",
         status   |-> IF a.outcome = "IndexError" \/ p.outcome = "IndexError"
                      THEN UnhandledErrorStatus
                      ELSE GateFailureStatus]

(***************************************************************************)
(* Values of request data and of adapter results                           *)
(***************************************************************************)
Absent == [t |-> "absent", v |-> <<>>]
StrV(s) == [t |-> "str", v |-> s]
IntV(n) == [t |-> "int", v |-> n]

\* the integers that appear in text form
KnownInts == {300, 1800}

(***************************************************************************)
(* serializers.py                                                          *)
(***************************************************************************)
\* serializers.CharField(min_length=...): required, not blank, trims
\* whitespace, renders a number as text
CharField(data, min_length) ==
    IF data.t = "absent" THEN [ok |-> FALSE, v |-> Absent]
    ELSE LET text == IF data.t = "int" THEN <<ToString(data.v)>> ELSE data.v
             trimmed == Strip(text)
         IN  IF trimmed = <<>> \/ Len(trimmed) < min_length
             THEN [ok |-> FALSE, v |-> Absent]
             ELSE [ok |-> TRUE, v |-> StrV(trimmed)]

\* serializers.CharField(required=False)
OptionalCharField(data) ==
    IF data.t = "absent" THEN [ok |-> TRUE, v |-> Absent]
    ELSE CharField(data, 0)

\* serializers.IntegerField(): required, an integer or its text form
IntegerField(data) ==
    IF data.t = "absent" THEN [ok |-> FALSE, v |-> Absent]
    ELSE IF data.t = "int" THEN [ok |-> TRUE, v |-> data]
    ELSE LET trimmed == Strip(data.v) IN
         IF Len(trimmed) = 1 /\ \E n \in KnownInts : ToString(n) = trimmed[1]
         THEN [ok |-> TRUE,
               v |-> IntV(CHOOSE n \in KnownInts : ToString(n) = trimmed[1])]
         ELSE [ok |-> FALSE, v |-> Absent]

\* the result of Serializer.is_valid() over per-field results
Validated(r) ==
    [valid          |-> \A f \in DOMAIN r : r[f].ok,
     validated_data |-> [f \in DOMAIN r |-> r[f].v],
     errors         |-> {f \in DOMAIN r : ~r[f].ok}]

\* TokenSerializer and RefreshTokenSerializer (the same five fields)
TokenSerializer(data) ==
    Validated([access_token       |-> CharField(data.access_token, 0),
               expires_in         |-> IntegerField(data.expires_in),
               refresh_token      |-> CharField(data.refresh_token, 0),
               refresh_expires_in |-> IntegerField(data.refresh_expires_in),
               token_type         |-> CharField(data.token_type, 0)])

RefreshTokenRequestSerializer(data) ==
    Validated([refresh_token |-> CharField(data.refresh_token, 0)])

LogoutSerializer(data) ==
    Validated([refresh_token |-> CharField(data.refresh_token, 1)])

SimpleLoginSerializer(data) ==
    Validated([username_or_email |-> CharField(data.username_or_email, 0),
               password          |-> CharField(data.password, 0),
               totp              |-> OptionalCharField(data.totp)])

\* UserProfileSerializer: uuid, createdDate and updatedDate are read-only,
\* so only profilePicture is taken from the request data
NoPicture == "<nopicture>"
InvalidPicture == "notAnImage"

UserProfileSerializer(data) ==
    [valid          |-> data.profilePicture # InvalidPicture,
     hasPicture     |-> data.profilePicture # NoPicture,
     profilePicture |-> data.profilePicture]

(***************************************************************************)
(* The Profile Store (UserProfile.objects)                                 *)
(***************************************************************************)
ProfileIds == 1..MaxProfiles
NoRow == [uuid |-> NoSubject, profilePicture |-> NoPicture,
          createdDate |-> 0, updatedDate |-> 0]
EmptyStore == [k \in ProfileIds |-> NoRow]
Exists(store, pk) == pk \in ProfileIds /\ store[pk] # NoRow

(***************************************************************************)
(* Requests and responses                                                  *)
(***************************************************************************)
NoReq == [code |-> Absent, refresh_token |-> Absent,
          username_or_email |-> Absent, password |-> Absent, totp |-> Absent,
          pk |-> 0, uuid |-> NoSubject, profilePicture |-> NoPicture]
NoAdapter == [kind |-> "none", tokens |-> Absent, msg |-> "none"]
EmptyBody == [empty |-> TRUE]

\* no request is being answered
NoResp == [endpoint |-> "none", header |-> NoHeader, req |-> NoReq,
           adapter |-> NoAdapter, status |-> 0, body |-> EmptyBody,
           cookies |-> {}, location |-> <<>>, idpCalls |-> 0,
           raised |-> "none", handlerRan |-> FALSE,
           auth |-> "skipped", perm |-> "skipped", before |-> EmptyStore]

(***************************************************************************)
(* views.py: the protected views                                           *)
(***************************************************************************)
\* request.user[key]: only a mapping can be subscripted; KeycloakUser
\* defines __getattr__ but no __getitem__
Subscript(user, key) ==
    IF user.kind = "dict"
    THEN [ok |-> TRUE, v |-> user.userinfo[key]]
    ELSE [ok |-> FALSE, v |-> NoSubject]

\* UserInfoSerializer.get_profile_picture
get_profile_picture(store, sub) ==
    IF \E k \in ProfileIds : store[k] # NoRow /\ store[k].uuid = sub
    THEN (LET k == CHOOSE k \in ProfileIds :
                       store[k] # NoRow /\ store[k].uuid = sub
          IN  store[k].profilePicture)
    ELSE NoPicture

\* UserInfoView.get: the serializer takes request.user as its data, and
\* data that is not a mapping is invalid
UserInfoView_get(user, store) ==
    IF user.kind = "dict"
    THEN [status |-> 200,
          body   |-> [sub |-> user.userinfo.sub, email |-> user.userinfo.email,
                      profile_picture |->
                          get_profile_picture(store, user.userinfo.sub)],
          store  |-> store, raised |-> "none"]
    ELSE [status |-> 400, body |-> [errors |-> {"non_field_errors"}],
          store  |-> store, raised |-> "none"]

\* UserProfileViewSet.perform_create: the row saved for the request
perform_create(user, serializer, store, time) ==
    LET sub == Subscript(user, "sub")
        email == Subscript(user, "email")
    IN  IF ~sub.ok \/ ~email.ok
        THEN [ok |-> FALSE, store |-> store, raised |-> "TypeError"]
        ELSE IF \A k \in ProfileIds : store[k] # NoRow
        THEN [ok |-> FALSE, store |-> store, raised |-> "DatabaseError"]
        ELSE LET k == CHOOSE k \in ProfileIds : store[k] = NoRow
                 row == [uuid |-> sub.v,
                         profilePicture |-> serializer.profilePicture,
                         createdDate |-> time, updatedDate |-> time]
             IN  [ok |-> TRUE, store |-> [store EXCEPT ![k] = row],
                  raised |-> "none"]

\* CreateModelMixin.create of UserProfileViewSet
UserProfileViewSet_create(user, data, store, time) ==
    LET serializer == UserProfileSerializer(data) IN
    IF ~serializer.valid
    THEN [status |-> 400, body |-> [errors |-> {"profilePicture"}],
          store |-> store, raised |-> "none"]
    ELSE LET saved == perform_create(user, serializer, store, time) IN
         IF saved.ok
         THEN [status |-> 201, body |-> [created |-> TRUE],
               store |-> saved.store, raised |-> "none"]
         ELSE [status |-> UnhandledErrorStatus, body |-> EmptyBody,
               store |-> store, raised |-> saved.raised]

\* perform_update as a plain serializer.save()
perform_update_plain(row, serializer, time) ==
    [uuid           |-> row.uuid,
     profilePicture |-> IF serializer.hasPicture THEN serializer.profilePicture
                        ELSE row.profilePicture,
     createdDate    |-> row.createdDate,
     updatedDate    |-> row.updatedDate]

\* UserProfileViewSet.perform_update: serializer.save(updatedDate=now)
perform_update(row, serializer, time) ==
    [uuid           |-> row.uuid,
     profilePicture |-> IF serializer.hasPicture THEN serializer.profilePicture
                        ELSE row.profilePicture,
     createdDate    |-> row.createdDate,
     updatedDate    |-> time]

\* UpdateModelMixin.update of UserProfileViewSet: the row is looked up by
\* primary key in queryset = UserProfile.objects.all()
UserProfileViewSet_update(pk, data, store, time) ==
    IF ~Exists(store, pk)
    THEN [status |-> 404, body |-> [detail |-> "Not found."],
          store |-> store, raised |-> "none"]
    ELSE LET serializer == UserProfileSerializer(data) IN
         IF ~serializer.valid
         THEN [status |-> 400, body |-> [errors |-> {"profilePicture"}],
               store |-> store, raised |-> "none"]
         ELSE [status |-> 200,
               body |-> perform_update(store[pk], serializer, time),
               store |-> [store EXCEPT
                             ![pk] = perform_update(store[pk], serializer, time)],
               raised |-> "none"]

\* DestroyModelMixin.destroy of UserProfileViewSet
UserProfileViewSet_destroy(pk, store) ==
    IF ~Exists(store, pk)
    THEN [status |-> 404, body |-> [detail |-> "Not found."],
          store |-> store, raised |-> "none"]
    ELSE [status |-> 204, body |-> EmptyBody,
          store |-> [store EXCEPT ![pk] = NoRow], raised |-> "none"]

\* the response of a protected view: the handler's when the request is
\* admitted, the rejection otherwise
ProtectedResponse(endpoint, h, req, g, handled, store) ==
    [NoResp EXCEPT
        !.endpoint   = endpoint,
        !.header     = h,
        !.req        = req,
        !.status     = IF g.admitted THEN handled.status ELSE g.status,
        !.body       = IF g.admitted THEN handled.body ELSE EmptyBody,
        !.idpCalls   = g.calls,
        !.raised     = IF g.admitted THEN handled.raised ELSE g.raised,
        !.handlerRan = g.admitted,
        !.auth       = g.auth,
        !.perm       = g.perm,
        !.before     = store]

(***************************************************************************)
(* Inputs of the protected views                                           *)
(***************************************************************************)
\* the headers of the two callers and of a caller without credentials
CallerHeaders == {NoHeader, <<"Bearer", "SP", "tokA">>, <<"Bearer", "SP", "tokB">>}
PictureInputs == {NoPicture, "pic1", InvalidPicture}
UuidInputs == {NoSubject, "subB"}
ProfileData == [uuid : UuidInputs, profilePicture : PictureInputs]

ProfileReq(pk, data) ==
    [NoReq EXCEPT !.pk = pk, !.uuid = data.uuid,
                  !.profilePicture = data.profilePicture]

(***************************************************************************)
(* Actions: one request to a protected view, with a header drawn from H    *)
(***************************************************************************)
UserInfo(H) ==
    /\ lastResp = NoResp
    /\ \E h \in H :
         LET g == Admit(h, extractorEnabled, liveTokens)
             handled == UserInfoView_get(g.user, profiles)
         IN  lastResp' = ProtectedResponse("userinfo", h, NoReq, g, handled,
                                           profiles)
    /\ UNCHANGED <<BASE_FRONTEND_URL, extractorEnabled, liveTokens, profiles, now>>

ProfileCreate(H) ==
    /\ lastResp = NoResp
    /\ \E h \in H, data \in ProfileData :
         LET g == Admit(h, extractorEnabled, liveTokens)
             handled == UserProfileViewSet_create(g.user, data, profiles, now)
         IN  /\ lastResp' = ProtectedResponse("profile_create", h,
                                              ProfileReq(0, data), g, handled,
                                              profiles)
             /\ profiles' = IF g.admitted THEN handled.store ELSE profiles
    /\ UNCHANGED <<BASE_FRONTEND_URL, extractorEnabled, liveTokens, now>>

ProfileUpdate(H) ==
    /\ lastResp = NoResp
    /\ \E h \in H, pk \in ProfileIds, data \in ProfileData :
         LET g == Admit(h, extractorEnabled, liveTokens)
             handled == UserProfileViewSet_update(pk, data, profiles, now)
         IN  /\ lastResp' = ProtectedResponse("profile_update", h,
                                              ProfileReq(pk, data), g, handled,
                                              profiles)
             /\ profiles' = IF g.admitted THEN handled.store ELSE profiles
    /\ UNCHANGED <<BASE_FRONTEND_URL, extractorEnabled, liveTokens, now>>

ProfileDelete(H) ==
    /\ lastResp = NoResp
    /\ \E h \in H, pk \in ProfileIds :
         LET g == Admit(h, extractorEnabled, liveTokens)
             handled == UserProfileViewSet_destroy(pk, profiles)
         IN  /\ lastResp' = ProtectedResponse("profile_delete", h,
                                              ProfileReq(pk, [uuid |-> NoSubject,
                                                  profilePicture |-> NoPicture]),
                                              g, handled, profiles)
             /\ profiles' = IF g.admitted THEN handled.store ELSE profiles
    /\ UNCHANGED <<BASE_FRONTEND_URL, extractorEnabled, liveTokens, now>>

(***************************************************************************)
(* Environment: the client takes the response, the IdP expires and issues  *)
(* tokens, time passes                                                     *)
(***************************************************************************)
Deliver ==
    /\ lastResp # NoResp
    /\ lastResp' = NoResp
    /\ UNCHANGED <<BASE_FRONTEND_URL, extractorEnabled, liveTokens, profiles, now>>

IdPExpire ==
    /\ lastResp = NoResp
    /\ \E tok \in liveTokens : liveTokens' = liveTokens \ {tok}
    /\ UNCHANGED <<BASE_FRONTEND_URL, extractorEnabled, profiles, now, lastResp>>

IdPIssue ==
    /\ lastResp = NoResp
    /\ \E tok \in IssuedTokens \ liveTokens : liveTokens' = liveTokens \cup {tok}
    /\ UNCHANGED <<BASE_FRONTEND_URL, extractorEnabled, profiles, now, lastResp>>

Tick ==
    /\ lastResp = NoResp
    /\ now < MaxTime
    /\ now' = now + 1
    /\ UNCHANGED <<BASE_FRONTEND_URL, extractorEnabled, liveTokens, profiles, lastResp>>

(***************************************************************************)
(* Initial states                                                          *)
(***************************************************************************)
\* text of a URL from its components
UrlText(scheme, host, rest) == <<scheme, "//", host>> \o rest
FrontendUrls == {UrlText("https:", "example.com", <<>>),
                 UrlText("https:", "example.com", <<"/">>),
                 UrlText("http:", "localhost", <<":3000">>)}

\* the rows the database holds when the service starts: at most one per
\* subject (uuid is the unique key)
StoredRow(u) == [uuid |-> u, profilePicture |-> NoPicture,
                 createdDate |-> 0, updatedDate |-> 0]
InitialStores ==
    {st \in [ProfileIds -> {NoRow} \cup {StoredRow(u) : u \in Subjects}] :
        \A j, k \in ProfileIds :
            (j # k /\ st[j] # NoRow /\ st[k] # NoRow) => st[j].uuid # st[k].uuid}

InitProtected ==
    /\ BASE_FRONTEND_URL = UrlText("https:", "example.com", <<>>)
    /\ extractorEnabled \in BOOLEAN
    /\ liveTokens = IssuedTokens
    /\ profiles \in InitialStores
    /\ now = 0
    /\ lastResp = NoResp

(***************************************************************************)
(* SpecGate: the protected views under every Authorization header          *)
(***************************************************************************)
GateUserInfo == UserInfo(Headers)
GateProfileCreate == ProfileCreate(Headers)
GateProfileUpdate == ProfileUpdate(Headers)
GateProfileDelete == ProfileDelete(Headers)

NextGate ==
    \/ GateUserInfo
    \/ GateProfileCreate
    \/ GateProfileUpdate
    \/ GateProfileDelete
    \/ Deliver
    \/ IdPExpire
    \/ IdPIssue

SpecGate == InitProtected /\ [][NextGate]_vars

(***************************************************************************)
(* SpecProfiles: the Profile Store under requests of two callers over time *)
(***************************************************************************)
CallerUserInfo == UserInfo(CallerHeaders)
CallerProfileCreate == ProfileCreate(CallerHeaders)
CallerProfileUpdate == ProfileUpdate(CallerHeaders)
CallerProfileDelete == ProfileDelete(CallerHeaders)

NextProfiles ==
    \/ CallerUserInfo
    \/ CallerProfileCreate
    \/ CallerProfileUpdate
    \/ CallerProfileDelete
    \/ Deliver
    \/ IdPExpire
    \/ IdPIssue
    \/ Tick

SpecProfiles == InitProtected /\ [][NextProfiles]_vars

(***************************************************************************)
(* exceptions.py                                                           *)
(***************************************************************************)
\* handle_keycloak_error answering every Keycloak error as a grant error
handle_keycloak_error_merged(error) ==
    IF error.kind \in {"KeycloakPostError", "KeycloakAuthenticationError"}
    THEN [status |-> 401, body |-> [detail |-> "Invalid grant or token."]]
    ELSE [status |-> 500,
          body |-> [detail |-> "An unexpected error occurred",
                    error |-> error.msg]]

\* KeycloakBaseView.handle_keycloak_error: error is [kind, msg], kind the
\* exception class and msg its str()
handle_keycloak_error(error) ==
    IF error.kind = "KeycloakPostError"
    THEN [status |-> 401, body |-> [detail |-> "Invalid grant or token."]]
    ELSE IF error.kind = "KeycloakAuthenticationError"
    THEN [status |-> 401, body |-> [detail |-> "Authentication failed."]]
    ELSE [status |-> 500,
          body |-> [detail |-> "An unexpected error occurred",
                    error |-> error.msg]]

(***************************************************************************)
(* IdP Client Adapter: the token operations.  A call returns a result the  *)
(* IdP decides: a token mapping, or a raised error.                        *)
(***************************************************************************)
Tokens(at, ei, rt, rei, tt, idt) ==
    [access_token |-> at, expires_in |-> ei, refresh_token |-> rt,
     refresh_expires_in |-> rei, token_type |-> tt, id_token |-> idt]

GoodTokens == Tokens(StrV(<<"at1">>), IntV(300), StrV(<<"rt1">>), IntV(1800),
                     StrV(<<"Bearer">>), Absent)

TokenResults ==
    {GoodTokens,
     [GoodTokens EXCEPT !.id_token = StrV(<<"id1">>)],
     [GoodTokens EXCEPT !.expires_in = StrV(<<"300">>)],
     [GoodTokens EXCEPT !.refresh_token = Absent],
     [GoodTokens EXCEPT !.access_token = StrV(<<>>)],
     [GoodTokens EXCEPT !.expires_in = StrV(<<"soon">>)]}

AdapterErrors ==
    {[kind |-> "KeycloakPostError", msg |-> "invalid_grant"],
     [kind |-> "KeycloakAuthenticationError", msg |-> "invalid_user_credentials"],
     [kind |-> "ConnectionError", msg |-> "connection refused"],
     [kind |-> "KeyError", msg |-> "access_token"]}

Returned(tokens) == [kind |-> "ok", tokens |-> tokens, msg |-> "none"]
Raised(error) == [kind |-> error.kind, tokens |-> Absent, msg |-> error.msg]

\* get_access_token_with_code, get_refresh_token, get_token_with_user_and_pass
GrantResults == {Returned(t) : t \in TokenResults}
                    \cup {Raised(e) : e \in AdapterErrors}
\* logout returns nothing
LogoutResults == {Returned(Absent)} \cup {Raised(e) : e \in AdapterErrors}

(***************************************************************************)
(* views.py: the token views                                               *)
(***************************************************************************)
cookie_max_age == 3600

\* str.split(sep) for a separator that is one chunk: the pieces between
\* its occurrences, empty pieces included
RECURSIVE SplitOnFrom(_, _, _)
SplitOnFrom(s, sep, cur) ==
    IF s = <<>> THEN <<cur>>
    ELSE IF Head(s) = sep THEN <<cur>> \o SplitOnFrom(Tail(s), sep, <<>>)
         ELSE SplitOnFrom(Tail(s), sep, Append(cur, Head(s)))

SplitOn(s, sep) == SplitOnFrom(s, sep, <<>>)

\* the text a cookie carries for a value
CookieValue(v) == IF v.t = "int" THEN <<ToString(v.v)>> ELSE v.v

\* KeycloakCallbackView._set_token_cookies: one cookie per item of
\* token_data; url.split("//")[1] raises IndexError without a second piece
set_token_cookies(token_data, url) ==
    LET pieces == SplitOn(url, "//") IN
    IF Len(pieces) < 2
    THEN [ok |-> FALSE, cookies |-> {}]
    ELSE [ok |-> TRUE,
          cookies |-> {[key      |-> key,
                        value    |-> CookieValue(token_data[key]),
                        max_age  |-> cookie_max_age,
                        secure   |-> TRUE,
                        httponly |-> TRUE,
                        samesite |-> "Lax",
                        domain   |-> <<".">> \o pieces[2]] :
                       key \in DOMAIN token_data}]

\* a response of a token view
TokenResponse(status, body, calls, result) ==
    [status |-> status, body |-> body, cookies |-> {}, location |-> <<>>,
     idpCalls |-> calls, adapter |-> result]

\* an except branch that calls the adapter once more before translating
TranslatedError_retry(error, result) ==
    LET t == handle_keycloak_error(error) IN
    TokenResponse(t.status, t.body, 2, result)

\* the except branch of a token view
TranslatedError(error, result) ==
    LET t == handle_keycloak_error(error) IN
    TokenResponse(t.status, t.body, 1, result)

\* `not code`
Falsy(v) == v.t = "absent" \/ v.v = <<>>

\* KeycloakCallbackView.get without the check of code
KeycloakCallbackView_get_unchecked(code, result, url) ==
    IF result.kind # "ok"
    THEN TokenResponse(handle_keycloak_error(result).status,
                       handle_keycloak_error(result).body, 1, result)
    ELSE LET serializer == TokenSerializer(result.tokens) IN
         IF ~serializer.valid
         THEN TokenResponse(400, [errors |-> serializer.errors], 1, result)
         ELSE [TokenResponse(302, EmptyBody, 1, result) EXCEPT
                  !.location = url]

\* KeycloakCallbackView.get; result is what get_access_token_with_code does
\* if it is called
KeycloakCallbackView_get(code, result, url) ==
    IF Falsy(code)
    THEN TokenResponse(400, [error |-> "Missing code parameter"], 0, NoAdapter)
    ELSE IF result.kind # "ok" THEN TranslatedError(result, result)
    ELSE LET serializer == TokenSerializer(result.tokens) IN
         IF ~serializer.valid
         THEN TokenResponse(400, [errors |-> serializer.errors], 1, result)
         ELSE LET set == set_token_cookies(serializer.validated_data, url) IN
              IF ~set.ok
              THEN TranslatedError([kind |-> "IndexError",
                                    msg |-> "list index out of range"], result)
              ELSE [TokenResponse(302, EmptyBody, 1, result) EXCEPT
                       !.cookies = set.cookies, !.location = url]

\* RefreshTokenView.post
RefreshTokenView_post(data, result) ==
    LET request_serializer == RefreshTokenRequestSerializer(data) IN
    IF ~request_serializer.valid
    THEN TokenResponse(400, [errors |-> request_serializer.errors], 0, NoAdapter)
    ELSE IF result.kind # "ok" THEN TranslatedError(result, result)
    ELSE LET response_serializer == TokenSerializer(result.tokens) IN
         IF response_serializer.valid
         THEN TokenResponse(200, response_serializer.validated_data, 1, result)
         ELSE TokenResponse(400, [errors |-> response_serializer.errors], 1,
                            result)

\* LogOutView.post
LogOutView_post(data, result) ==
    LET serializer == LogoutSerializer(data) IN
    IF ~serializer.valid
    THEN TokenResponse(400, [errors |-> serializer.errors], 0, NoAdapter)
    ELSE IF result.kind # "ok" THEN TranslatedError(result, result)
    ELSE TokenResponse(204, [detail |-> "User logged out successfully."], 1,
                       result)

\* SimpleLoginView.post
SimpleLoginView_post(data, result) ==
    LET serializer == SimpleLoginSerializer(data) IN
    IF ~serializer.valid
    THEN TokenResponse(400, [errors |-> serializer.errors], 0, NoAdapter)
    ELSE IF result.kind # "ok" THEN TranslatedError(result, result)
    ELSE LET response_serializer == TokenSerializer(result.tokens) IN
         IF response_serializer.valid
         THEN TokenResponse(200, response_serializer.validated_data, 1, result)
         ELSE TokenResponse(400, [errors |-> response_serializer.errors], 1,
                            result)

(***************************************************************************)
(* Inputs of the token views                                               *)
(***************************************************************************)
CodeInputs == {Absent, StrV(<<>>), StrV(<<"xyz">>)}
RefreshTokenInputs == {Absent, StrV(<<>>), StrV(<<"SP">>), StrV(<<"abc">>)}
CredentialInputs == {Absent, StrV(<<>>), StrV(<<"alice">>)}
TotpInputs == {Absent, StrV(<<"123456">>)}

\* the response recorded for a token view
Recorded(endpoint, req, r) ==
    [NoResp EXCEPT !.endpoint = endpoint, !.req = req, !.status = r.status,
                   !.body = r.body, !.cookies = r.cookies,
                   !.location = r.location, !.idpCalls = r.idpCalls,
                   !.adapter = r.adapter, !.handlerRan = TRUE]

(***************************************************************************)
(* Actions: one request to a token view                                    *)
(***************************************************************************)
Callback ==
    /\ lastResp = NoResp
    /\ \E code \in CodeInputs, result \in GrantResults :
         lastResp' = Recorded("callback", [NoReq EXCEPT !.code = code],
                         KeycloakCallbackView_get(code, result,
                                                  BASE_FRONTEND_URL))
    /\ UNCHANGED <<BASE_FRONTEND_URL, extractorEnabled, liveTokens, profiles, now>>

Refresh ==
    /\ lastResp = NoResp
    /\ \E rt \in RefreshTokenInputs, result \in GrantResults :
         lastResp' = Recorded("refresh", [NoReq EXCEPT !.refresh_token = rt],
                         RefreshTokenView_post([refresh_token |-> rt], result))
    /\ UNCHANGED <<BASE_FRONTEND_URL, extractorEnabled, liveTokens, profiles, now>>

Logout ==
    /\ lastResp = NoResp
    /\ \E rt \in RefreshTokenInputs, result \in LogoutResults :
         lastResp' = Recorded("logout", [NoReq EXCEPT !.refresh_token = rt],
                         LogOutView_post([refresh_token |-> rt], result))
    /\ UNCHANGED <<BASE_FRONTEND_URL, extractorEnabled, liveTokens, profiles, now>>

SimpleLogin ==
    /\ lastResp = NoResp
    /\ \E u \in CredentialInputs, pw \in CredentialInputs, totp \in TotpInputs,
          result \in GrantResults :
         lastResp' = Recorded("login_simple",
                         [NoReq EXCEPT !.username_or_email = u,
                                       !.password = pw, !.totp = totp],
                         SimpleLoginView_post([username_or_email |-> u,
                                               password |-> pw, totp |-> totp],
                                              result))
    /\ UNCHANGED <<BASE_FRONTEND_URL, extractorEnabled, liveTokens, profiles, now>>

(***************************************************************************)
(* SpecTokens: the token views under every configured frontend URL         *)
(***************************************************************************)
InitTokens ==
    /\ BASE_FRONTEND_URL \in FrontendUrls
    /\ extractorEnabled = FALSE
    /\ liveTokens = IssuedTokens
    /\ profiles = EmptyStore
    /\ now = 0
    /\ lastResp = NoResp

NextTokens ==
    \/ Callback
    \/ Refresh
    \/ Logout
    \/ SimpleLogin
    \/ Deliver

SpecTokens == InitTokens /\ [][NextTokens]_vars

(***************************************************************************)
(* Vocabulary of the properties                                            *)
(***************************************************************************)
ProtectedEndpoints == {"userinfo", "profile_create", "profile_update",
                       "profile_delete"}
TokenEndpoints == {"callback", "refresh", "logout", "login_simple"}

\* the header is 'Bearer ' followed by a token
HasBearerToken(h) ==
    /\ h # NoHeader
    /\ Len(h) >= 3
    /\ h[1] = "Bearer"
    /\ h[2] = "SP"
    /\ \E i \in 3..Len(h) : h[i] # "SP"

\* the token of such a header: the first run of non-whitespace after 'Bearer '
BearerToken(h) ==
    LET first == CHOOSE i \in 3..Len(h) :
                     h[i] # "SP" /\ \A j \in 3..(i - 1) : h[j] = "SP"
        last  == CHOOSE k \in first..Len(h) :
                     /\ \A j \in first..k : h[j] # "SP"
                     /\ (k = Len(h) \/ h[k + 1] = "SP")
    IN  SubSeq(h, first, last)

\* the subject the IdP resolves the request's bearer token to
Caller(h) ==
    IF HasBearerToken(h) /\ BearerToken(h) \in liveTokens
    THEN SubjectOf(BearerToken(h)) ELSE NoSubject

\* the adapter was called and raised
AdapterRaised == lastResp.adapter.kind \notin {"none", "ok"}

\* C1: a request whose Authorization header is absent or malformed
\* (including 'Bearer ' followed only by whitespace) is resolved to
\* anonymous by KeycloakAuthentication.authenticate, with no IdP call and
\* no error raised.
C1_MalformedHeaderIsAnonymous ==
    (/\ lastResp.endpoint \in ProtectedEndpoints
     /\ extractorEnabled
     /\ ~HasBearerToken(lastResp.header))
    => (lastResp.auth = "anonymous" /\ lastResp.idpCalls = 0)

C3_AdapterFailureIsTranslated ==
    (lastResp.endpoint \in TokenEndpoints /\ AdapterRaised)
    => (/\ lastResp.raised = "none"
        /\ lastResp.cookies = {}
        /\ IF lastResp.adapter.kind = "KeycloakPostError"
           THEN /\ lastResp.status = 401
                /\ lastResp.body = [detail |-> "Invalid grant or token."]
           ELSE IF lastResp.adapter.kind = "KeycloakAuthenticationError"
           THEN /\ lastResp.status = 401
                /\ lastResp.body = [detail |-> "Authentication failed."]
           ELSE /\ lastResp.status = 500
                /\ "error" \in DOMAIN lastResp.body
                /\ lastResp.body.error = lastResp.adapter.msg)

C3_Witness ==
    /\ lastResp.endpoint = "refresh"
    /\ lastResp.req.refresh_token = StrV(<<"abc">>)
    /\ lastResp.adapter.kind = "KeycloakPostError"
    /\ lastResp.status = 401

\* the Token Bundle's fields
TokenBundleFields == {"access_token", "expires_in", "refresh_token",
                      "refresh_expires_in", "token_type"}

\* the text of a value as the adapter returned it
WireText(v) == IF v.t = "int" THEN <<ToString(v.v)>> ELSE v.v

\* a valid Token Bundle: text fields not blank, integer fields integers
ValidBundle(tokens) ==
    /\ \A f \in {"access_token", "refresh_token", "token_type"} :
           tokens[f].t = "str" /\ tokens[f].v # <<>>
    /\ \A f \in {"expires_in", "refresh_expires_in"} :
           \/ tokens[f].t = "int"
           \/ tokens[f].t = "str" /\ tokens[f].v \in {<<"300">>, <<"1800">>}

\* the host of the configured frontend URL: the component after 'scheme://'
FrontendDomain == BASE_FRONTEND_URL[3]

CallbackSucceeds ==
    /\ lastResp.endpoint = "callback"
    /\ lastResp.req.code = StrV(<<"xyz">>)
    /\ lastResp.adapter.kind = "ok"
    /\ ValidBundle(lastResp.adapter.tokens)

\* C4: a Callback with a code for which the adapter returns a valid Token
\* Bundle answers 302 to the frontend base URL and sets exactly five
\* cookies, one per Token Bundle field with the adapter's value, max-age
\* 3600, secure, http-only, same-site Lax, domain '.{frontend-domain}';
\* every other outcome of the Callback sets no cookie.
C4_CallbackSetsTokenCookies ==
    /\ CallbackSucceeds =>
         /\ lastResp.status = 302
         /\ lastResp.location = BASE_FRONTEND_URL
         /\ {c.key : c \in lastResp.cookies} = TokenBundleFields
         /\ Cardinality(lastResp.cookies) = 5
         /\ \A c \in lastResp.cookies :
              /\ c.value = WireText(lastResp.adapter.tokens[c.key])
              /\ c.max_age = 3600
              /\ c.secure
              /\ c.httponly
              /\ c.samesite = "Lax"
              /\ c.domain = <<".", FrontendDomain>>
    /\ (lastResp.endpoint = "callback" /\ ~CallbackSucceeds) =>
         lastResp.cookies = {}

\* C5: has_permission is a total boolean predicate: true exactly when the
\* header carries a bearer token that get_user_info resolves, false in
\* every other case, and it never raises.
C5_GateIsTotalPredicate ==
    (lastResp.endpoint \in ProtectedEndpoints /\ lastResp.perm # "skipped")
    => (/\ lastResp.perm \in {"true", "false"}
        /\ (lastResp.perm = "true") <=> (Caller(lastResp.header) # NoSubject))

\* the profile of a subject exists in a store
HasProfile(store, sub) ==
    \E k \in ProfileIds : store[k] # NoRow /\ store[k].uuid = sub

\* C6: profile creation by an authenticated caller succeeds and stores a
\* row whose uuid is the caller's subject_id, whatever uuid the request
\* body carries; no update changes a row's uuid.
C6_CreateStoresCallerSubject ==
    /\ (/\ lastResp.endpoint = "profile_create"
        /\ Caller(lastResp.header) # NoSubject
        /\ lastResp.req.profilePicture # InvalidPicture
        /\ ~HasProfile(lastResp.before, Caller(lastResp.header))
        /\ \E k \in ProfileIds : lastResp.before[k] = NoRow)
       => (/\ lastResp.status = 201
           /\ \E k \in ProfileIds :
                /\ lastResp.before[k] = NoRow
                /\ profiles[k] # NoRow
                /\ profiles[k].uuid = Caller(lastResp.header))
    /\ (lastResp.endpoint = "profile_update" /\ lastResp.status = 200)
       => profiles[lastResp.req.pk].uuid
              = lastResp.before[lastResp.req.pk].uuid

\* C7: every successful Profile update sets updated_at to the time of the
\* update, whatever the body carries, so updated_at never decreases, and
\* created_at is unchanged.
C7_UpdateRefreshesUpdatedAt ==
    (lastResp.endpoint = "profile_update" /\ lastResp.status = 200)
    => LET pk == lastResp.req.pk IN
       /\ profiles[pk].updatedDate = now
       /\ profiles[pk].updatedDate >= lastResp.before[pk].updatedDate
       /\ profiles[pk].createdDate = lastResp.before[pk].createdDate

C7_Witness ==
    /\ lastResp.endpoint = "profile_update"
    /\ lastResp.status = 200
    /\ lastResp.req.profilePicture = NoPicture
    /\ lastResp.before[lastResp.req.pk].updatedDate < now
    /\ profiles[lastResp.req.pk].updatedDate = now

\* the request lacks a non-empty value for a field
Lacks(v) == v.t = "absent" \/ v.v = <<>>

InvalidInput ==
    \/ lastResp.endpoint = "callback" /\ lastResp.req.code.t = "absent"
    \/ lastResp.endpoint \in {"refresh", "logout"}
           /\ Lacks(lastResp.req.refresh_token)
    \/ lastResp.endpoint = "login_simple"
           /\ (lastResp.req.username_or_email.t = "absent"
               \/ lastResp.req.password.t = "absent")

\* C8: a Callback without a code, a Refresh or Logout without a non-empty
\* refresh_token and a Password-login without username_or_email or
\* password return 400 and make no call to the IdP adapter.
C8_ValidationPrecedesIdP ==
    InvalidInput => (/\ lastResp.status = 400
                     /\ lastResp.idpCalls = 0
                     /\ lastResp.adapter = NoAdapter)

C8_Witness ==
    /\ lastResp.endpoint = "callback"
    /\ lastResp.req.code.t = "absent"
    /\ lastResp.status = 400
    /\ lastResp.idpCalls = 0

\* C9: each Callback, Refresh, Logout and Password-login request makes at
\* most one call to the IdP adapter, and exactly one when that call fails.
C9_NoRetry ==
    lastResp.endpoint \in TokenEndpoints
    => (/\ lastResp.idpCalls <= 1
        /\ AdapterRaised => lastResp.idpCalls = 1)

C9_Witness ==
    /\ lastResp.endpoint = "logout"
    /\ AdapterRaised
    /\ lastResp.status = 500
    /\ lastResp.idpCalls = 1

\* C10: a Profile update or delete changes or removes only a profile whose
\* uuid is the authenticated caller's subject_id.
C10_OnlyOwnerMutates ==
    (/\ lastResp.endpoint \in {"profile_update", "profile_delete"}
     /\ profiles # lastResp.before)
    => \A k \in ProfileIds :
         profiles[k] # lastResp.before[k]
         => lastResp.before[k].uuid = Caller(lastResp.header)

====
